---------------------------- MODULE Spec2Model ----------------------------
(***************************************************************************)
(* Model of the indexing and retrieval core of repo-reader:                *)
(*   src/api/tools/tidb_vector_store_fixed.py  (TiDBVectorStore)           *)
(*   src/api/tools/code_indexer.py             (CodeIndexerTool,           *)
(*                                              CodeSearchTool)            *)
(*                                                                         *)
(* Text.  A Python str is modelled as a sequence of atoms.  An atom is     *)
(* either the newline character NL or a newline-free piece of text, kept   *)
(* as a TLA+ string; len() of a text is the sum of the lengths of its      *)
(* atoms.  With one-character atoms a text is the plain character          *)
(* sequence; longer atoms are used for the long runs that reach the        *)
(* program's size constants (1000, 100000); such an atom is a run of the   *)
(* character k.  The chunker cuts a text at newlines only; the searches    *)
(* cut a content after its first 1000 or 500 characters.                   *)
(***************************************************************************)
EXTENDS Integers, Sequences, FiniteSets, Bags, TLC

VARIABLES
    c_content,      \* chunker run: the content argument of chunk_code_file
    c_chunk_size,   \* chunker run: the chunk_size argument
    c_chunks,       \* chunker run: the returned list of chunks
    c_pc,           \* chunker run: "call" before, "done" after chunk_code_file
    rows,           \* table code_embeddings: the bag of committed rows
    pc,             \* per client: its place in the indexing call
    call,           \* per client: the arguments of the call in progress
    pending,        \* per client: rows added to its session, not yet committed
    counts,         \* per client: the locals indexed_count and total_chunks
    deleted,        \* per client: whether its delete() removed any row
    result,         \* per client: what the call returned (or that it raised)
    observed,       \* the answer of get_repository_stats, when the last step was one
    prev,           \* the previous completed call and the stats right after it
    cache,          \* _embedding_cache: the entries in insertion order
    e_last,         \* the last embed_text call: its text and what it did
    evictions,      \* how many entries the cache has evicted so far
    search,         \* the last CodeSearchTool._run: its arguments, what the
                    \* store's searches returned to it, and what it returned
    rag,            \* the last RAGQueryTool._run: its arguments and what it returned
    streams,        \* per analyze request: the dict made for progress_streams
    registered,     \* the task ids that are keys of progress_streams
    agent_stream,   \* agent._progress_stream: unset, None, or the dict of a task
    task,           \* per analyze request: its place in the analysis
    sse             \* per task: the consumer of /api/analyze/stream/<task_id>

chunk_vars == <<c_content, c_chunk_size, c_chunks, c_pc>>
store_vars == <<rows, pc, call, pending, counts, deleted, result, observed, prev>>
cache_vars == <<cache, e_last, evictions>>
search_vars == <<search>>
rag_vars == <<rag>>
stream_vars == <<streams, registered, agent_stream, task, sse>>
vars == <<chunk_vars, store_vars, cache_vars, search_vars, rag_vars, stream_vars>>

-----------------------------------------------------------------------------
(* Bounds of the model *)

\* longest text, in atoms, given to the chunker run
MaxLen == 4
\* largest small chunk_size given to the chunker run (0 .. MaxChunkSize)
MaxChunkSize == 3
\* evictions of the embedding cache followed in a run
MaxEvictions == 3
\* progress messages one analysis reports at most
MaxMessages == 2

(* Program constants *)

\* chunk_code_file(..., chunk_size: int = 1000)
DefaultChunkSize == 1000
\* index_repository: len(content) > 100000 is skipped
MaxContentLen == 100000
\* self._cache_max_size = 1000
CacheMaxSize == 1000

-----------------------------------------------------------------------------
(* Text *)

NL == "\n"

\* len(text)
RECURSIVE TextLen(_)
TextLen(s) == IF s = <<>> THEN 0 ELSE Len(Head(s)) + TextLen(Tail(s))

\* index of the first newline of s, 0 when there is none
FirstNL(s) ==
    IF \E i \in 1..Len(s) : s[i] = NL
    THEN CHOOSE i \in 1..Len(s) : s[i] = NL /\ \A j \in 1..(i-1) : s[j] # NL
    ELSE 0

\* content.split('\n'): the list of lines, always at least one
RECURSIVE Split(_)
Split(s) ==
    LET i == FirstNL(s) IN
    IF i = 0 THEN <<s>>
    ELSE <<SubSeq(s, 1, i-1)>> \o Split(SubSeq(s, i+1, Len(s)))

\* '\n'.join(lines)
RECURSIVE Join(_)
Join(lines) ==
    IF lines = <<>> THEN <<>>
    ELSE IF Len(lines) = 1 THEN lines[1]
    ELSE lines[1] \o <<NL>> \o Join(Tail(lines))

-----------------------------------------------------------------------------
(* chunk_code_file *)

\* f"chunk_{chunk_num}"
ChunkId(chunk_num) == "chunk_" \o ToString(chunk_num)

\* a start line one too low
StartLineOffByOne(line_num, current_chunk) == line_num - Len(current_chunk)

\* 'start_line': line_num - len(current_chunk) + 1
StartLine(line_num, current_chunk) == line_num - Len(current_chunk) + 1

\* a close test that forgets the end of the file
ShouldCloseOnSizeOnly(current_size, chunk_size, line_num, n_lines) ==
    current_size >= chunk_size

\* a close test that forgets the size
ShouldCloseAtEndOnly(current_size, chunk_size, line_num, n_lines) ==
    line_num = n_lines - 1

\* if current_size >= chunk_size or line_num == len(lines) - 1
ShouldClose(current_size, chunk_size, line_num, n_lines) ==
    current_size >= chunk_size \/ line_num = n_lines - 1

\* the loop state before the first line
LoopStart == [chunks |-> <<>>, current_chunk |-> <<>>, current_size |-> 0,
              chunk_num |-> 0]

\* one iteration of `for line_num, line in enumerate(lines)`
LoopBody(lines, file_path, chunk_size, line_num, st) ==
    LET line == lines[line_num + 1]
        current_chunk == Append(st.current_chunk, line)
        current_size == st.current_size + TextLen(line) + 1
    IN  IF ShouldClose(current_size, chunk_size, line_num, Len(lines))
           /\ current_chunk # <<>>
        THEN [chunks |-> Append(st.chunks,
                  [chunk_id   |-> ChunkId(st.chunk_num),
                   content    |-> Join(current_chunk),
                   start_line |-> StartLine(line_num, current_chunk),
                   end_line   |-> line_num,
                   file_path  |-> file_path]),
              current_chunk |-> <<>>,
              current_size  |-> 0,
              chunk_num     |-> st.chunk_num + 1]
        ELSE [chunks |-> st.chunks,
              current_chunk |-> current_chunk,
              current_size  |-> current_size,
              chunk_num     |-> st.chunk_num]

\* the loop state after the lines 0 .. line_num-1
RECURSIVE Loop(_, _, _, _)
Loop(lines, file_path, chunk_size, line_num) ==
    IF line_num = 0 THEN LoopStart
    ELSE LoopBody(lines, file_path, chunk_size, line_num - 1,
                  Loop(lines, file_path, chunk_size, line_num - 1))

chunk_code_file(content, file_path, chunk_size) ==
    LET lines == Split(content)
    IN  Loop(lines, file_path, chunk_size, Len(lines)).chunks

-----------------------------------------------------------------------------
(* The chunker run: chunk_code_file applied to one text *)

RECURSIVE SeqsUpTo(_, _)
SeqsUpTo(S, n) ==
    IF n = 0 THEN {<<>>}
    ELSE LET shorter == SeqsUpTo(S, n - 1)
         IN  shorter \cup {Append(s, a) : s \in {t \in shorter : Len(t) = n - 1}, a \in S}

\* "def f():\n    pass\n"
ExampleText == <<"def f():", NL, "    pass", NL>>

ChunkTexts == SeqsUpTo({"x", NL}, MaxLen) \cup {ExampleText}
ChunkSizes == (0..MaxChunkSize) \cup {DefaultChunkSize}

ChunkInit ==
    /\ c_content \in ChunkTexts
    /\ c_chunk_size \in ChunkSizes
    /\ c_chunks = <<>>
    /\ c_pc = "call"

ChunkCodeFile ==
    /\ c_pc = "call"
    /\ c_chunks' = chunk_code_file(c_content, "a.py", c_chunk_size)
    /\ c_pc' = "done"
    /\ UNCHANGED <<c_content, c_chunk_size>>

-----------------------------------------------------------------------------
(* Repositories, files and clients of the store *)

Repos == {"r1", "r2"}
Procs == {"p1", "p2"}

K10 == "kkkkkkkkkk"
K100 == K10 \o K10 \o K10 \o K10 \o K10 \o K10 \o K10 \o K10 \o K10 \o K10
\* a line of 1000 characters
K1000 == K100 \o K100 \o K100 \o K100 \o K100 \o K100 \o K100 \o K100 \o K100 \o K100
K10000 == K1000 \o K1000 \o K1000 \o K1000 \o K1000 \o K1000 \o K1000 \o K1000 \o K1000 \o K1000
\* a line of 100001 characters
K100001 == K10000 \o K10000 \o K10000 \o K10000 \o K10000 \o K10000 \o K10000 \o K10000 \o K10000 \o K10000 \o "k"

\* entries of repo_data['files']
FileA  == [path |-> "a.py", content |-> <<"x", NL, "y">>, language |-> "python"]
FileB  == [path |-> "b.py", content |-> <<K1000, NL, "y">>, language |-> "python"]
FileE  == [path |-> "e.py", content |-> <<>>, language |-> "python"]
FileH  == [path |-> "h.py", content |-> <<K100001>>, language |-> "python"]

\* the file lists given to the index operation; a call names one by its index
InputLists == << <<FileB, FileE, FileH>>, <<FileA, FileA>> >>
Inputs == 1..Len(InputLists)

NoCall == [repo_name |-> "", input |-> 0, via_tool |-> FALSE, force_reindex |-> FALSE]
NoCounts == [indexed_count |-> 0, total_chunks |-> 0]
NoResult == [kind |-> "none", success |-> FALSE, message |-> "", indexed_files |-> 0,
             total_chunks |-> 0, reindexed |-> FALSE]
NoStats == [repo |-> "", total_chunks |-> 0, total_files |-> 0]
NoPrev == [call |-> NoCall, result |-> NoResult, total_chunks |-> 0, total_files |-> 0]

FilesOf(p) == InputLists[call[p].input]

-----------------------------------------------------------------------------
(* The table *)

\* the rows of one repository: filter(CodeEmbedding.repo_name == repo_name)
RowsOf(tbl, repo_name) ==
    [row \in {x \in BagToSet(tbl) : x.repo_name = repo_name} |-> tbl[row]]

\* a delete that removes nothing
DeleteRepoNone(tbl, repo_name) == tbl

\* query(...).filter(repo_name == ...).delete()
DeleteRepo(tbl, repo_name) ==
    [row \in {x \in BagToSet(tbl) : x.repo_name # repo_name} |-> tbl[row]]

\* get_repository_stats: count(), and distinct file_path count()
StatsOf(tbl, repo_name) ==
    [total_chunks |-> BagCardinality(RowsOf(tbl, repo_name)),
     total_files |-> Cardinality({x.file_path : x \in BagToSet(RowsOf(tbl, repo_name))})]

\* a commit that overwrites the table with the session's rows
InsertOver(tbl, session) == session

\* a commit that stores one row of the session only
InsertPartial(tbl, session) ==
    IF session = EmptyBag THEN tbl
    ELSE tbl (+) SetToBag({CHOOSE x \in BagToSet(session) : TRUE})

\* session.commit() of the rows added to the session
Insert(tbl, session) == tbl (+) session

\* embedding_model.encode: a fixed function of the text
Encode(text) == [of |-> text]

\* CodeEmbedding(...) for one chunk of one file
MakeRow(repo_name, file, chunk) ==
    [repo_name |-> repo_name,
     file_path |-> file.path,
     chunk_id |-> chunk.chunk_id,
     content |-> chunk.content,
     embedding |-> Encode(chunk.content),
     chunk_metadata |-> [language |-> file.language,
                         start_line |-> chunk.start_line,
                         end_line |-> chunk.end_line,
                         chunk_size |-> TextLen(chunk.content),
                         file_size |-> TextLen(file.content)]]

\* if not content or len(content) > 100000: continue
Skipped(file) == file.content = <<>> \/ TextLen(file.content) > MaxContentLen

RECURSIVE AddAll(_, _, _, _)
AddAll(session, repo_name, file, chunks) ==
    IF chunks = <<>> THEN session
    ELSE AddAll(session (+) SetToBag({MakeRow(repo_name, file, Head(chunks))}),
                repo_name, file, Tail(chunks))

\* one iteration of `for file_info in files`; encode_ok: encode() did not raise
FileBody(st, repo_name, file, encode_ok) ==
    IF Skipped(file) THEN st
    ELSE LET chunks == chunk_code_file(file.content, file.path, DefaultChunkSize)
         IN  IF encode_ok
             THEN [session |-> AddAll(st.session, repo_name, file, chunks),
                   indexed_count |-> st.indexed_count + 1,
                   total_chunks |-> st.total_chunks + Len(chunks)]
             ELSE st

\* the loop over the first n files
RECURSIVE FileLoop(_, _, _, _)
FileLoop(repo_name, files, encode_ok, n) ==
    IF n = 0 THEN [session |-> EmptyBag, indexed_count |-> 0, total_chunks |-> 0]
    ELSE FileBody(FileLoop(repo_name, files, encode_ok, n - 1),
                  repo_name, files[n], encode_ok[n])

-----------------------------------------------------------------------------
(* Operations *)

\* an exception leaves index_repository; CodeIndexerTool._run turns it into
\* success: False, a direct caller sees it raised
Raised(p) ==
    IF call[p].via_tool
    THEN [kind |-> "return", success |-> FALSE, message |-> "Indexing failed",
          indexed_files |-> 0, total_chunks |-> 0, reindexed |-> FALSE]
    ELSE [kind |-> "raise", success |-> FALSE, message |-> "",
          indexed_files |-> 0, total_chunks |-> 0, reindexed |-> FALSE]

\* TiDBVectorStore.index_repository called directly
IndexRepository(p, repo_name, input) ==
    /\ pc[p] = "idle"
    /\ call' = [call EXCEPT ![p] = [repo_name |-> repo_name, input |-> input,
                                    via_tool |-> FALSE, force_reindex |-> FALSE]]
    /\ pc' = [pc EXCEPT ![p] = "delete"]
    /\ observed' = NoStats
    /\ UNCHANGED <<rows, pending, counts, deleted, result, prev, chunk_vars, cache_vars, search_vars, rag_vars, stream_vars>>

\* session.query(CodeEmbedding).filter(...).delete(); session.commit()
DeleteCommit(p) ==
    /\ pc[p] = "delete"
    /\ \E db_ok \in BOOLEAN :
          IF db_ok
          THEN /\ rows' = DeleteRepo(rows, call[p].repo_name)
               /\ deleted' = [deleted EXCEPT ![p] =
                                 RowsOf(rows, call[p].repo_name) # EmptyBag]
               /\ pc' = [pc EXCEPT ![p] = "embed"]
               /\ UNCHANGED result
          ELSE /\ result' = [result EXCEPT ![p] = Raised(p)]
               /\ pc' = [pc EXCEPT ![p] = "done"]
               /\ UNCHANGED <<rows, deleted>>
    /\ observed' = NoStats
    /\ UNCHANGED <<call, pending, counts, prev, chunk_vars, cache_vars, search_vars, rag_vars, stream_vars>>

\* the loop over the files: chunk, encode, session.add
EmbedFiles(p) ==
    /\ pc[p] = "embed"
    /\ \E encode_ok \in [1..Len(FilesOf(p)) -> BOOLEAN] :
          /\ \A i \in 1..Len(FilesOf(p)) : Skipped(FilesOf(p)[i]) => encode_ok[i]
          /\ LET st == FileLoop(call[p].repo_name, FilesOf(p), encode_ok,
                                Len(FilesOf(p)))
             IN  /\ pending' = [pending EXCEPT ![p] = st.session]
                 /\ counts' = [counts EXCEPT ![p] =
                                  [indexed_count |-> st.indexed_count,
                                   total_chunks |-> st.total_chunks]]
    /\ pc' = [pc EXCEPT ![p] = "commit"]
    /\ observed' = NoStats
    /\ UNCHANGED <<rows, call, deleted, result, prev, chunk_vars, cache_vars, search_vars, rag_vars, stream_vars>>

\* what index_repository returns, as its caller passes it on
Returned(p) ==
    [kind |-> "return", success |-> TRUE, message |-> "Successfully indexed",
     indexed_files |-> counts[p].indexed_count,
     total_chunks |-> counts[p].total_chunks,
     reindexed |-> call[p].force_reindex]

\* session.commit() of the added rows, then the return
Commit(p) ==
    /\ pc[p] = "commit"
    /\ \E db_ok \in BOOLEAN :
          IF db_ok
          THEN /\ rows' = Insert(rows, pending[p])
               /\ result' = [result EXCEPT ![p] = Returned(p)]
          ELSE /\ result' = [result EXCEPT ![p] = Raised(p)]
               /\ UNCHANGED rows
    /\ pc' = [pc EXCEPT ![p] = "done"]
    /\ observed' = NoStats
    /\ UNCHANGED <<call, pending, counts, deleted, prev, chunk_vars, cache_vars, search_vars, rag_vars, stream_vars>>

\* the caller takes the result; the client is free for its next call
TakeResult(p) ==
    /\ pc[p] = "done"
    /\ pc' = [pc EXCEPT ![p] = "idle"]
    /\ call' = [call EXCEPT ![p] = NoCall]
    /\ pending' = [pending EXCEPT ![p] = EmptyBag]
    /\ counts' = [counts EXCEPT ![p] = NoCounts]
    /\ deleted' = [deleted EXCEPT ![p] = FALSE]
    /\ result' = [result EXCEPT ![p] = NoResult]
    /\ observed' = NoStats
    /\ UNCHANGED <<rows, chunk_vars, cache_vars, search_vars, rag_vars, stream_vars>>

Return(p) == TakeResult(p) /\ UNCHANGED prev

\* the same, the caller noting the call and the stats of its repository
ReturnNoted(p) ==
    /\ TakeResult(p)
    /\ prev' = [call |-> call[p], result |-> result[p],
                total_chunks |-> StatsOf(rows, call[p].repo_name).total_chunks,
                total_files |-> StatsOf(rows, call[p].repo_name).total_files]

\* TiDBVectorStore.get_repository_stats; a failed query returns zeros
GetRepositoryStats(repo_name) ==
    /\ \E db_ok \in BOOLEAN :
          observed' = IF db_ok
                      THEN [repo |-> repo_name,
                            total_chunks |-> StatsOf(rows, repo_name).total_chunks,
                            total_files |-> StatsOf(rows, repo_name).total_files]
                      ELSE [repo |-> repo_name, total_chunks |-> 0, total_files |-> 0]
    /\ UNCHANGED <<rows, pc, call, pending, counts, deleted, result, prev, chunk_vars, cache_vars, search_vars, rag_vars, stream_vars>>

\* TiDBVectorStore.__init__ -> _initialize_tables: DROP TABLE IF EXISTS, create_all
InitializeTables ==
    /\ \E db_ok \in BOOLEAN : rows' = IF db_ok THEN EmptyBag ELSE rows
    /\ observed' = NoStats
    /\ UNCHANGED <<pc, call, pending, counts, deleted, result, prev, chunk_vars, cache_vars, search_vars, rag_vars, stream_vars>>

\* CodeIndexerTool._run up to the call of index_repository
IndexerRun(p, repo_name, input, force_reindex, available) ==
    /\ pc[p] = "idle"
    /\ call' = [call EXCEPT ![p] = [repo_name |-> repo_name, input |-> input,
                                    via_tool |-> TRUE, force_reindex |-> force_reindex]]
    /\ \E db_ok \in BOOLEAN :
          LET existing_stats == IF db_ok THEN StatsOf(rows, repo_name)
                                ELSE [total_chunks |-> 0, total_files |-> 0]
          IN  IF ~available
              THEN /\ result' = [result EXCEPT ![p] =
                                   [kind |-> "return", success |-> FALSE,
                                    message |-> "TiDB Vector Store not available",
                                    indexed_files |-> 0, total_chunks |-> 0,
                                    reindexed |-> FALSE]]
                   /\ pc' = [pc EXCEPT ![p] = "done"]
              ELSE IF ~force_reindex /\ existing_stats.total_chunks > 0
              THEN /\ result' = [result EXCEPT ![p] =
                                   [kind |-> "return", success |-> TRUE,
                                    message |-> "already indexed",
                                    indexed_files |-> existing_stats.total_files,
                                    total_chunks |-> existing_stats.total_chunks,
                                    reindexed |-> FALSE]]
                   /\ pc' = [pc EXCEPT ![p] = "done"]
              ELSE /\ pc' = [pc EXCEPT ![p] = "delete"]
                   /\ UNCHANGED result
    /\ observed' = NoStats
    /\ UNCHANGED <<rows, pending, counts, deleted, prev, chunk_vars, cache_vars, search_vars, rag_vars, stream_vars>>

-----------------------------------------------------------------------------
(* embed_text and the embedding cache of one store *)

\* the texts given to embed_text: q1, q2, ...
Text(i) == <<"q" \o ToString(i)>>

\* hashlib.md5(text.encode()).hexdigest(): a digest that tells the texts of
\* the model apart
Md5(text) == [md5 |-> text]

\* text_hash in self._embedding_cache
Keys(c) == {c[i].key : i \in 1..Len(c)}

\* a lookup that answers with the oldest entry
LookupOldest(c, text_hash) == c[1].vector

\* self._embedding_cache[text_hash]
Lookup(c, text_hash) == c[CHOOSE i \in 1..Len(c) : c[i].key = text_hash].vector

\* an eviction that removes the entry inserted last
EvictNewest(c) == IF Len(c) >= CacheMaxSize THEN SubSeq(c, 1, Len(c) - 1) ELSE c

\* if len(cache) >= max: del cache[next(iter(cache))]; a dict iterates in
\* insertion order
Evict(c) == IF Len(c) >= CacheMaxSize THEN Tail(c) ELSE c

\* the keys deleted by the eviction: one, or none
Evicted(c) == IF Len(c) >= CacheMaxSize THEN <<c[1].key>> ELSE <<>>

\* self._embedding_cache[text_hash] = embedding_list, for a key not present
Store(c, text_hash, vector) == Append(Evict(c), [key |-> text_hash, vector |-> vector])

\* stands where no vector is returned
NoVector == [of |-> <<>>]

\* embed_text(text) on the cache c; encode_ok: encode() did not raise
embed_text(c, text, encode_ok) ==
    LET text_hash == Md5(text) IN
    IF text_hash \in Keys(c)
    THEN [kind |-> "hit", returned |-> Lookup(c, text_hash), cache |-> c,
          invoked |-> FALSE, evicted |-> <<>>]
    ELSE IF ~encode_ok
    THEN [kind |-> "raise", returned |-> NoVector, cache |-> c,
          invoked |-> TRUE, evicted |-> <<>>]
    ELSE [kind |-> "miss", returned |-> Encode(text),
          cache |-> Store(c, text_hash, Encode(text)),
          invoked |-> TRUE, evicted |-> Evicted(c)]

NoEmbed == [text |-> <<>>, kind |-> "none", returned |-> NoVector, invoked |-> FALSE,
            evicted |-> <<>>, evicted_text |-> <<>>, prev_text |-> <<>>, prev_kind |-> "none"]

\* the texts a run calls embed_text with: one never stored before, the
\* oldest and the newest entry of the cache, and the one evicted last.
\* Texts differ only by their place in the cache, so new texts come in order.
Candidates ==
    {Text(Len(cache) + evictions + 1)}
        \cup (IF cache = <<>> THEN {} ELSE {cache[1].vector.of, cache[Len(cache)].vector.of})
        \cup (IF e_last.evicted = <<>> THEN {} ELSE {e_last.evicted_text})

\* one call of embed_text
EmbedText(text, encode_ok) ==
    /\ LET r == embed_text(cache, text, encode_ok) IN
       /\ r.evicted # <<>> => evictions < MaxEvictions
       /\ cache' = r.cache
       /\ e_last' = [text |-> text, kind |-> r.kind, returned |-> r.returned,
                     invoked |-> r.invoked, evicted |-> r.evicted,
                     evicted_text |-> IF r.evicted = <<>> THEN <<>> ELSE cache[1].vector.of,
                     prev_text |-> e_last.text, prev_kind |-> e_last.kind]
       /\ evictions' = evictions + Len(r.evicted)
    /\ UNCHANGED <<chunk_vars, store_vars, search_vars, rag_vars, stream_vars>>

\* self._embedding_cache = {}
CacheIdle ==
    /\ cache = <<>>
    /\ e_last = NoEmbed
    /\ evictions = 0

-----------------------------------------------------------------------------
(* The searched corpus: contents, queries and their embeddings *)

K500 == K100 \o K100 \o K100 \o K100 \o K100

\* contents of indexed files
TextTodo  == <<"T", "O", "D", "O">>
TextLower == <<"t", "o", "d", "o">>
TextX     == <<"x">>
\* one line of 1004 characters that ends in TODO
TextLong  == <<K500, K500, "T", "O", "D", "O">>

FileT == [path |-> "t.py", content |-> TextTodo,  language |-> "python"]
FileL == [path |-> "l.py", content |-> TextLower, language |-> "python"]
FileX == [path |-> "x.py", content |-> TextX,     language |-> "python"]
FileG == [path |-> "g.py", content |-> TextLong,  language |-> "python"]

\* the queries: a word, and the LIKE wildcard characters
QueryTodo == TextTodo
QueryUnderscore == <<"_">>
Queries == {QueryTodo, QueryUnderscore}

\* results asked for
Limits == {1, 2, 5}

\* the rows index_repository stores for a file list when nothing fails
IndexedRows(repo_name, files) ==
    FileLoop(repo_name, files, [i \in 1..Len(files) |-> TRUE], Len(files)).session

\* the tables searched: several files, a two-chunk file, a file indexed twice
SearchTables ==
    { IndexedRows("r1", <<FileT, FileL, FileG>>) (+) IndexedRows("r2", <<FileT, FileL>>),
      IndexedRows("r1", <<FileB, FileX>>),
      IndexedRows("r1", <<FileT, FileT>>) (+) IndexedRows("r2", <<FileL>>) }

\* the score 1.0; scores are counted in thousandths
ScoreOne == 1000

\* the 384-dimensional output of all-MiniLM-L6-v2 is stood for by a plane
\* vector per text, with integer length
Direction(text) ==
    CASE text = TextTodo -> <<0, 1>>
      [] text = TextLower -> <<4, 3>>
      [] text = TextLong -> <<3, 4>>
      [] text = QueryUnderscore -> <<-1, 0>>
      [] OTHER -> <<1, 0>>

\* the vector of an embedding
Vec(embedding) == Direction(embedding.of)

Dot(a, b) == a[1] * b[1] + a[2] * b[2]
Norm(a) == CHOOSE n \in 0..10 : n * n = Dot(a, a)

\* TiDB's VEC_COSINE_DISTANCE: 1 - cos(a, b), in thousandths
CosineDistance(a, b) == ScoreOne - (ScoreOne * Dot(a, b)) \div (Norm(a) * Norm(b))

\* the characters of an atom; an atom of several characters is a run of "k"
Chars(atom) == IF Len(atom) = 1 THEN <<atom>> ELSE [i \in 1..Len(atom) |-> "k"]

\* the characters of a text
RECURSIVE FlatChars(_)
FlatChars(text) ==
    IF text = <<>> THEN <<>> ELSE Chars(Head(text)) \o FlatChars(Tail(text))

\* text[:n]
RECURSIVE Prefix(_, _)
Prefix(text, n) ==
    IF text = <<>> \/ n <= 0 THEN <<>>
    ELSE IF Len(Head(text)) <= n
         THEN <<Head(text)>> \o Prefix(Tail(text), n - Len(Head(text)))
         ELSE SubSeq(Chars(Head(text)), 1, n)

\* content[:n] + "..." if len(content) > n else content
Truncate(content, n) ==
    IF TextLen(content) > n THEN Prefix(content, n) \o <<"...">> ELSE content

\* SQL LIKE of the characters s from position i against the pattern p from
\* position j: % matches any run of characters, _ any single character
RECURSIVE LikeAt(_, _, _, _)
LikeAt(s, i, p, j) ==
    IF j > Len(p) THEN i > Len(s)
    ELSE IF p[j] = "%" THEN \E k \in i..(Len(s) + 1) : LikeAt(s, k, p, j + 1)
    ELSE /\ i <= Len(s)
         /\ p[j] = "_" \/ p[j] = s[i]
         /\ LikeAt(s, i + 1, p, j + 1)

\* a match that takes every character of the query literally
ContainsLiteral(content, query) ==
    LET s == FlatChars(content)
        q == FlatChars(query)
    IN  \E i \in 0..(Len(s) - Len(q)) : SubSeq(s, i + 1, i + Len(q)) = q

\* CodeEmbedding.content.contains(query): content LIKE '%' || query || '%',
\* the query not escaped
Contains(content, query) ==
    LikeAt(FlatChars(content), 1, <<"%">> \o FlatChars(query) \o <<"%">>, 1)

\* the orders in which a query can return the rows of a bag
RECURSIVE Orders(_)
Orders(bag) ==
    IF bag = EmptyBag THEN {<<>>}
    ELSE UNION {{<<x>> \o s : s \in Orders(bag (-) SetToBag({x}))} : x \in BagToSet(bag)}

\* seq[:n], and LIMIT n
Take(seq, n) == SubSeq(seq, 1, IF n < Len(seq) THEN n ELSE Len(seq))

-----------------------------------------------------------------------------
(* vector_search, fulltext_search, hybrid_search, CodeSearchTool._run *)

\* the rows of the repository whose content matches the query
MatchingRows(tbl, repo_name, query) ==
    [row \in {x \in BagToSet(tbl) : x.repo_name = repo_name /\ Contains(x.content, query)}
        |-> tbl[row]]

\* CodeEmbedding.embedding.cosine_distance(query_embedding)
Distance(row, query_embedding) == CosineDistance(Vec(row.embedding), Vec(query_embedding))

\* an order by distance, farthest first
FarthestFirst(s, query_embedding) ==
    \A i \in 1..(Len(s) - 1) : Distance(s[i], query_embedding) >= Distance(s[i + 1], query_embedding)

\* order_by('distance'): rows of equal distance come in any order
ByDistance(s, query_embedding) ==
    \A i \in 1..(Len(s) - 1) : Distance(s[i], query_embedding) <= Distance(s[i + 1], query_embedding)

\* filter(repo_name == ...).order_by('distance'): the orders the database can answer in
VectorOrders(tbl, repo_name, query_embedding) ==
    {s \in Orders(RowsOf(tbl, repo_name)) : ByDistance(s, query_embedding)}

\* filter(repo_name == ..., content.contains(query)): no order is asked for
FulltextOrders(tbl, repo_name, query) == Orders(MatchingRows(tbl, repo_name, query))

\* one entry of formatted_results of vector_search; json.loads gives back the
\* mapping json.dumps was given
VectorResult(row, query_embedding) ==
    [file_path |-> row.file_path,
     chunk_id |-> row.chunk_id,
     content |-> Truncate(row.content, 1000),
     full_content |-> row.content,
     metadata |-> row.chunk_metadata,
     similarity_score |-> ScoreOne - Distance(row, query_embedding)]

\* one entry of formatted_results of fulltext_search
FulltextResult(row) ==
    [file_path |-> row.file_path,
     chunk_id |-> row.chunk_id,
     content |-> row.content,
     metadata |-> row.chunk_metadata,
     relevance_score |-> ScoreOne]

\* vector_search after embed_text: the first `limit` rows of the order the
\* database answers in; [] when the embedding or the query raised
vector_search(query_embedding, order, limit, ok) ==
    IF ~ok THEN <<>>
    ELSE [i \in 1..Len(Take(order, limit)) |-> VectorResult(order[i], query_embedding)]

\* fulltext_search: the first `limit` matching rows; [] when the query raised
fulltext_search(order, limit, ok) ==
    IF ~ok THEN <<>>
    ELSE [i \in 1..Len(Take(order, limit)) |-> FulltextResult(order[i])]

\* key = f"{result['file_path']}:{result['chunk_id']}"
Key(res) == res.file_path \o ":" \o res.chunk_id

\* key in combined_results; the dict is the list of its values in insertion order
HasKey(d, key) == \E i \in 1..Len(d) : Key(d[i]) = key
IndexOfKey(d, key) == CHOOSE i \in 1..Len(d) : Key(d[i]) = key

\* combined_results[key] = value: a new key goes last, a known key keeps its place
Put(d, value) ==
    IF HasKey(d, Key(value)) THEN [d EXCEPT ![IndexOfKey(d, Key(value))] = value]
    ELSE Append(d, value)

\* a merge that keeps the similarity of a chunk found by both searches
BothScoreKeep(similarity_score, relevance_score) == similarity_score

\* (similarity_score + relevance_score / 10.0) / 2
BothScore(similarity_score, relevance_score) ==
    (similarity_score + relevance_score \div 10) \div 2

\* relevance_score / 10.0
FulltextScore(relevance_score) == relevance_score \div 10

\* for result in vector_results
RECURSIVE VectorLoop(_, _)
VectorLoop(vector_results, n) ==
    IF n = 0 THEN <<>>
    ELSE LET res == vector_results[n]
         IN  Put(VectorLoop(vector_results, n - 1),
                 [search_type |-> "vector", combined_score |-> res.similarity_score] @@ res)

\* for result in fulltext_results; raised: combined_results[key]['similarity_score']
\* was a KeyError, the entry under the key being a full-text result
RECURSIVE FulltextLoop(_, _, _)
FulltextLoop(vector_results, fulltext_results, n) ==
    IF n = 0 THEN [raised |-> FALSE, d |-> VectorLoop(vector_results, Len(vector_results))]
    ELSE LET st == FulltextLoop(vector_results, fulltext_results, n - 1)
             res == fulltext_results[n]
         IN  IF st.raised THEN st
             ELSE IF HasKey(st.d, Key(res))
             THEN LET i == IndexOfKey(st.d, Key(res)) IN
                  IF "similarity_score" \notin DOMAIN st.d[i]
                  THEN [raised |-> TRUE, d |-> st.d]
                  ELSE [raised |-> FALSE,
                        d |-> [st.d EXCEPT ![i] =
                                 [search_type |-> "hybrid",
                                  combined_score |-> BothScore(st.d[i].similarity_score,
                                                               res.relevance_score)] @@ st.d[i]]]
             ELSE [raised |-> FALSE,
                   d |-> Append(st.d, [search_type |-> "fulltext",
                                       combined_score |-> FulltextScore(res.relevance_score)]
                                      @@ res)]

\* a sort with the lowest score first
RECURSIVE SortAscending(_)
SortAscending(seq) ==
    IF seq = <<>> THEN <<>>
    ELSE LET x == seq[Len(seq)]
             sorted == SortAscending(SubSeq(seq, 1, Len(seq) - 1))
             k == Cardinality({i \in 1..Len(sorted) : sorted[i].combined_score <= x.combined_score})
         IN  SubSeq(sorted, 1, k) \o <<x>> \o SubSeq(sorted, k + 1, Len(sorted))

\* sorted(values, key=combined_score, reverse=True): entries of equal score
\* keep their order
RECURSIVE SortDescending(_)
SortDescending(seq) ==
    IF seq = <<>> THEN <<>>
    ELSE LET x == seq[Len(seq)]
             sorted == SortDescending(SubSeq(seq, 1, Len(seq) - 1))
             k == Cardinality({i \in 1..Len(sorted) : sorted[i].combined_score >= x.combined_score})
         IN  SubSeq(sorted, 1, k) \o <<x>> \o SubSeq(sorted, k + 1, Len(sorted))

\* hybrid_search, given what its two searches returned
hybrid_search(vector_results, fulltext_results, limit) ==
    LET st == FulltextLoop(vector_results, fulltext_results, Len(fulltext_results))
    IN  [raised |-> st.raised,
         merged |-> st.d,
         results |-> IF st.raised THEN <<>> ELSE Take(SortDescending(st.d), limit)]

\* the score fields CodeSearchTool._run copies when the result has them
ScoresOf(res) ==
    [f \in DOMAIN res \cap {"similarity_score", "relevance_score", "combined_score"} |-> res[f]]

\* one entry of processed_results
ProcessedResult(res, search_type) ==
    [file_path |-> res.file_path,
     chunk_id |-> res.chunk_id,
     content |-> Truncate(res.content, 500),
     full_content |-> res.content,
     metadata |-> res.metadata,
     search_type |-> IF "search_type" \in DOMAIN res THEN res.search_type ELSE search_type]
    @@ ScoresOf(res)

\* the return value of CodeSearchTool._run for the results of the store
Found(results, search_type) ==
    [success |-> TRUE, error |-> "", results_count |-> Len(results),
     results |-> [i \in 1..Len(results) |-> ProcessedResult(results[i], search_type)]]

Failed(error) == [success |-> FALSE, error |-> error, results_count |-> 0, results |-> <<>>]

SearchTypes == {"vector", "fulltext", "hybrid", "semantic"}

\* what goes wrong in a call: nothing, encode(), the vector query, the
\* full-text query, both queries
Fails == {"none", "embed", "vector_db", "fulltext_db", "db"}

NoSearch == [call |-> [query |-> <<>>, repo_name |-> "", search_type |-> "", limit |-> 0],
             fail |-> "none",
             vector_results |-> <<>>, fulltext_results |-> <<>>,
             merged |-> <<>>, raised |-> FALSE,
             store_results |-> <<>>, result |-> Failed("")]

\* CodeSearchTool._run(query, repo_name, search_type, limit)
CodeSearch(query, repo_name, search_type, limit, available, fail) ==
    LET the_call == [query |-> query, repo_name |-> repo_name,
                     search_type |-> search_type, limit |-> limit]
        embeds == available /\ search_type \in {"vector", "hybrid"}
        texts == available /\ search_type \in {"fulltext", "hybrid"}
        er == embed_text(cache, query, fail # "embed")
        vector_ok == er.kind # "raise" /\ fail \notin {"vector_db", "db"}
        fulltext_ok == fail \notin {"fulltext_db", "db"}
    IN
    /\ search = NoSearch
    /\ ~available => fail = "none"
    /\ ~embeds => fail \notin {"embed", "vector_db", "db"}
    /\ ~texts => fail \notin {"fulltext_db", "db"}
    /\ (embeds /\ Md5(query) \in Keys(cache)) => fail # "embed"
    /\ \E vorder \in IF embeds /\ vector_ok THEN VectorOrders(rows, repo_name, er.returned) ELSE {<<>>},
          forder \in IF texts /\ fulltext_ok THEN FulltextOrders(rows, repo_name, query) ELSE {<<>>} :
          LET vr == IF embeds THEN vector_search(er.returned, vorder, limit, vector_ok) ELSE <<>>
              fr == IF texts THEN fulltext_search(forder, limit, fulltext_ok) ELSE <<>>
              hr == hybrid_search(vr, fr, limit)
          IN  search' =
                 [call |-> the_call, fail |-> fail,
                  vector_results |-> vr, fulltext_results |-> fr,
                  merged |-> IF search_type = "hybrid" THEN hr.merged ELSE <<>>,
                  raised |-> search_type = "hybrid" /\ hr.raised,
                  store_results |->
                      CASE ~available -> <<>>
                        [] search_type = "vector" -> vr
                        [] search_type = "fulltext" -> fr
                        [] search_type = "hybrid" -> hr.results
                        [] OTHER -> <<>>,
                  result |->
                      CASE ~available -> Failed("TiDB Vector Store not available")
                        [] search_type = "vector" -> Found(vr, search_type)
                        [] search_type = "fulltext" -> Found(fr, search_type)
                        [] search_type = "hybrid" ->
                              IF hr.raised THEN Failed("Search failed")
                              ELSE Found(hr.results, search_type)
                        [] OTHER -> Failed("Invalid search type")]
    /\ IF embeds
       THEN /\ cache' = er.cache
            /\ e_last' = [text |-> query, kind |-> er.kind, returned |-> er.returned,
                          invoked |-> er.invoked, evicted |-> er.evicted,
                          evicted_text |-> <<>>,
                          prev_text |-> e_last.text, prev_kind |-> e_last.kind]
            /\ evictions' = evictions + Len(er.evicted)
       ELSE UNCHANGED cache_vars
    /\ UNCHANGED <<chunk_vars, store_vars>>

\* the caller has taken the result of the search; the call is over
SearchReturn ==
    /\ search # NoSearch
    /\ search' = NoSearch
    /\ UNCHANGED <<chunk_vars, store_vars, cache_vars, rag_vars, stream_vars>>

SearchIdle == search = NoSearch

-----------------------------------------------------------------------------
(* RAGQueryTool._run *)

\* _code_search_tool._run(..., search_type="hybrid", limit=8)
RagLimit == 8
\* relevant_chunks[:5]
ContextSize == 5
\* relevant_chunks[:3]
TopFiles == 3

\* a repository of six chunks, two of which contain TODO
FileP == [path |-> "p.py", content |-> <<"p">>, language |-> "python"]
FileQ == [path |-> "q.py", content |-> <<"q">>, language |-> "python"]
RagTables ==
    SearchTables \cup {IndexedRows("r1", <<FileT, FileL, FileG, FileX, FileP, FileQ>>)}

\* the questions asked
Questions == {QueryTodo}

\* the llm argument: None, or a model whose invoke answers, raises, or
\* returns None (HybridLLMManager.invoke when every model failed)
Llms == {"none", "answers", "raises", "returns_none"}

\* Python's None, and str(None)
PyNone == [repr |-> "None"]
Str(x) == x.repr

\* what llm.invoke(messages) returns when it does not raise
Response(llm) == IF llm = "answers" THEN [content |-> "generated"] ELSE PyNone

\* response.content if hasattr(response, 'content') else str(response)
AnswerOf(response) ==
    IF "content" \in DOMAIN response THEN response.content ELSE Str(response)

\* f"{metadata.get('start_line', '?')}-{metadata.get('end_line', '?')}"
LinesText(metadata) ==
    (IF "start_line" \in DOMAIN metadata THEN ToString(metadata.start_line) ELSE "?")
    \o "-" \o
    (IF "end_line" \in DOMAIN metadata THEN ToString(metadata.end_line) ELSE "?")

\* one entry of context_parts
ContextPart(chunk) ==
    [file_path |-> chunk.file_path,
     lines |-> LinesText(chunk.metadata),
     language |-> IF "language" \in DOMAIN chunk.metadata THEN chunk.metadata.language ELSE "unknown",
     content |-> chunk.full_content]

\* one entry of sources
Source(chunk) ==
    [file_path |-> chunk.file_path,
     lines |-> LinesText(chunk.metadata),
     language |-> IF "language" \in DOMAIN chunk.metadata THEN chunk.metadata.language ELSE "unknown",
     similarity_score |->
         IF "combined_score" \in DOMAIN chunk THEN chunk.combined_score
         ELSE IF "similarity_score" \in DOMAIN chunk THEN chunk.similarity_score
         ELSE 0]

\* a context made of the first three chunks only
ContextChunksThree(relevant_chunks) == Take(relevant_chunks, TopFiles)

\* the chunks the context and the sources are made of: relevant_chunks[:5]
ContextChunks(relevant_chunks) == Take(relevant_chunks, ContextSize)

\* [chunk['file_path'] for chunk in relevant_chunks[:3]]
TopPaths(relevant_chunks) ==
    [i \in 1..Len(Take(relevant_chunks, TopFiles)) |-> relevant_chunks[i].file_path]

\* a test for no chunks that never holds
NoChunksNever(relevant_chunks) == FALSE

\* if not relevant_chunks
NoChunks(relevant_chunks) == relevant_chunks = <<>>

\* a test for no llm that never holds
NoLlmNever(llm) == FALSE

\* if not llm
NoLlm(llm) == llm = "none"

\* the answers RAGQueryTool._run writes itself: their wording, the number
\* and the file paths they name
NothingFound == [kind |-> "nothing_found", count |-> 0, files |-> <<>>]
NeedLlm(count, files) == [kind |-> "need_llm", count |-> count, files |-> files]
ModelError(files) == [kind |-> "model_error", count |-> 0, files |-> files]
\* the answer taken from the model's response
FromModel(text) == [kind |-> "from_model", text |-> text]

\* RAGQueryTool._run after the search: invoked tells whether llm.invoke was
\* called, context is context_parts, result the returned dict
RagRun(search_result, llm) ==
    LET relevant_chunks == search_result.results
        used == ContextChunks(relevant_chunks)
        context_parts == [i \in 1..Len(used) |-> ContextPart(used[i])]
        sources == [i \in 1..Len(used) |-> Source(used[i])]
    IN
    IF ~search_result.success
    THEN [invoked |-> FALSE, context |-> <<>>,
          result |-> [success |-> FALSE, error |-> "Failed to search code",
                      answer |-> PyNone]]
    ELSE IF NoChunks(relevant_chunks)
    THEN [invoked |-> FALSE, context |-> <<>>,
          result |-> [success |-> TRUE, answer |-> NothingFound,
                      sources |-> <<>>, search_results |-> <<>>]]
    ELSE IF NoLlm(llm)
    THEN [invoked |-> FALSE, context |-> context_parts,
          result |-> [success |-> TRUE,
                      answer |-> NeedLlm(Len(relevant_chunks), TopPaths(relevant_chunks)),
                      sources |-> sources, search_results |-> relevant_chunks,
                      fallback_mode |-> TRUE]]
    ELSE IF llm = "raises"
    THEN [invoked |-> TRUE, context |-> context_parts,
          result |-> [success |-> TRUE,
                      answer |-> ModelError(TopPaths(relevant_chunks)),
                      sources |-> sources, search_results |-> relevant_chunks,
                      llm_error |-> "raised"]]
    ELSE [invoked |-> TRUE, context |-> context_parts,
          result |-> [success |-> TRUE,
                      answer |-> FromModel(AnswerOf(Response(llm))),
                      sources |-> sources, search_results |-> relevant_chunks,
                      context_used |-> Len(context_parts)]]

NoRag == [call |-> [question |-> <<>>, repo_name |-> "", llm |-> ""],
          invoked |-> FALSE, context |-> <<>>,
          result |-> [success |-> FALSE, error |-> "", answer |-> PyNone]]

\* RAGQueryTool._run(question, repo_name, user_level, llm): the hybrid
\* search of its CodeSearchTool, then the answer
RagQuery(question, repo_name, llm, available, fail) ==
    /\ rag = NoRag
    /\ CodeSearch(question, repo_name, "hybrid", RagLimit, available, fail)
    /\ LET r == RagRun(search'.result, llm)
       IN  rag' = [call |-> [question |-> question, repo_name |-> repo_name, llm |-> llm],
                   invoked |-> r.invoked, context |-> r.context, result |-> r.result]
    /\ UNCHANGED stream_vars

\* the caller has taken the answer; the call is over
RagReturn ==
    /\ rag # NoRag
    /\ rag' = NoRag
    /\ search' = NoSearch
    /\ UNCHANGED <<chunk_vars, store_vars, cache_vars, stream_vars>>

RagIdle == rag = NoRag

-----------------------------------------------------------------------------
(* Progress streams of /api/analyze *)

\* the analyze requests
Tasks == {"t1", "t2"}

\* progress_streams[task_id] as the request handler creates it
NoStream == [messages |-> <<>>, completed |-> FALSE, final_result |-> PyNone]
NoTask == [kind |-> "", pc |-> "idle", produced |-> 0, messages |-> <<>>]
NoSse == [pc |-> "idle", sent_count |-> 0, emitted |-> <<>>]

StreamIdle ==
    /\ streams = [t \in Tasks |-> NoStream]
    /\ registered = {}
    /\ agent_stream = "unset"
    /\ task = [t \in Tasks |-> NoTask]
    /\ sse = [t \in Tasks |-> NoSse]

\* the result of analyze_repository: a dict, whatever the outcome
Result(t) == [success |-> TRUE, of |-> t]

\* the n-th progress message of the clone and read step of task t
Message(t, n) == [from |-> t, n |-> n]

\* POST /api/analyze: with stream, the handler makes the task's dict, puts it
\* in progress_streams and starts the thread; without, it goes on to call
\* analyze_repository itself
AnalyzeRequest(t, kind) ==
    /\ task[t].pc = "idle"
    /\ task' = [task EXCEPT ![t] = [@ EXCEPT !.kind = kind, !.pc = "started"]]
    /\ IF kind = "stream"
       THEN /\ streams' = [streams EXCEPT ![t] = NoStream]
            /\ registered' = registered \cup {t}
       ELSE UNCHANGED <<streams, registered>>
    /\ UNCHANGED <<agent_stream, sse>>
    /\ UNCHANGED <<chunk_vars, store_vars, cache_vars, search_vars, rag_vars>>

\* analyze_repository: self._progress_stream = progress_stream
Enter(t) ==
    /\ task[t].pc = "started"
    /\ agent_stream' = IF task[t].kind = "stream" THEN t ELSE "None"
    /\ task' = [task EXCEPT ![t] = [@ EXCEPT !.pc = "reading"]]
    /\ UNCHANGED <<streams, registered, sse>>
    /\ UNCHANGED <<chunk_vars, store_vars, cache_vars, search_vars, rag_vars>>

\* progress_callback(message) of _repo_reader_node: the message goes to the
\* state of the task, and to the dict self._progress_stream refers to now
Progress(t) ==
    /\ task[t].pc = "reading"
    /\ task[t].produced < MaxMessages
    /\ LET m == Message(t, task[t].produced + 1)
       IN  /\ task' = [task EXCEPT ![t] = [@ EXCEPT !.produced = @ + 1,
                                                   !.messages = Append(@, m)]]
           /\ IF agent_stream \in Tasks
              THEN streams' = [streams EXCEPT ![agent_stream] =
                                  [@ EXCEPT !.messages = Append(@, m)]]
              ELSE UNCHANGED streams
    /\ UNCHANGED <<registered, agent_stream, sse>>
    /\ UNCHANGED <<chunk_vars, store_vars, cache_vars, search_vars, rag_vars>>

\* analyze_repository returns; a synchronous request is answered
AnalysisReturn(t) ==
    /\ task[t].pc = "reading"
    /\ task' = [task EXCEPT ![t] =
                   [@ EXCEPT !.pc = IF task[t].kind = "stream" THEN "returned" ELSE "done"]]
    /\ UNCHANGED <<streams, registered, agent_stream, sse>>
    /\ UNCHANGED <<chunk_vars, store_vars, cache_vars, search_vars, rag_vars>>

\* run_analysis: progress_streams[task_id]['final_result'] = result
SetFinalResult(t) ==
    /\ task[t].pc = "returned"
    /\ streams' = [streams EXCEPT ![t] = [@ EXCEPT !.final_result = Result(t)]]
    /\ task' = [task EXCEPT ![t] = [@ EXCEPT !.pc = "final"]]
    /\ UNCHANGED <<registered, agent_stream, sse>>
    /\ UNCHANGED <<chunk_vars, store_vars, cache_vars, search_vars, rag_vars>>

\* run_analysis: progress_streams[task_id]['completed'] = True
SetCompleted(t) ==
    /\ task[t].pc = "final"
    /\ streams' = [streams EXCEPT ![t] = [@ EXCEPT !.completed = TRUE]]
    /\ task' = [task EXCEPT ![t] = [@ EXCEPT !.pc = "done"]]
    /\ UNCHANGED <<registered, agent_stream, sse>>
    /\ UNCHANGED <<chunk_vars, store_vars, cache_vars, search_vars, rag_vars>>

\* the events of the stream
ProgressEvent(m) == [type |-> "progress", message |-> m]
CompleteEvent(res) == [type |-> "complete", result |-> res]
ErrorEvent == [type |-> "error", error |-> "Task not found"]

\* GET /api/analyze/stream/<task_id>, by the client that was given the id:
\* generate() up to the first test of the loop
Connect(t) ==
    /\ sse[t].pc = "idle"
    /\ task[t].kind = "stream"
    /\ IF t \in registered
       THEN sse' = [sse EXCEPT ![t] = [@ EXCEPT !.pc = "loop", !.sent_count = 0]]
       ELSE sse' = [sse EXCEPT ![t] = [@ EXCEPT !.pc = "closed",
                                              !.emitted = Append(@, ErrorEvent)]]
    /\ UNCHANGED <<streams, registered, agent_stream, task>>
    /\ UNCHANGED <<chunk_vars, store_vars, cache_vars, search_vars, rag_vars>>

\* while not stream_data['completed']
TestCompleted(t) ==
    /\ sse[t].pc = "loop"
    /\ sse' = [sse EXCEPT ![t] =
                  [@ EXCEPT !.pc = IF streams[t].completed THEN "flush" ELSE "send"]]
    /\ UNCHANGED <<streams, registered, agent_stream, task>>
    /\ UNCHANGED <<chunk_vars, store_vars, cache_vars, search_vars, rag_vars>>

\* yield of one progress message
Emit(emitted, m) == Append(emitted, ProgressEvent(m))

\* inside the loop: one message is sent, or none is left and the consumer
\* sleeps and tests again
Send(t) ==
    /\ sse[t].pc = "send"
    /\ IF sse[t].sent_count < Len(streams[t].messages)
       THEN sse' = [sse EXCEPT ![t] =
                       [@ EXCEPT !.emitted = Emit(@, streams[t].messages[sse[t].sent_count + 1]),
                                 !.sent_count = @ + 1]]
       ELSE sse' = [sse EXCEPT ![t] = [@ EXCEPT !.pc = "loop"]]
    /\ UNCHANGED <<streams, registered, agent_stream, task>>
    /\ UNCHANGED <<chunk_vars, store_vars, cache_vars, search_vars, rag_vars>>

\* after the loop: the remaining messages one by one, then the 'complete'
\* event with final_result
Flush(t) ==
    /\ sse[t].pc = "flush"
    /\ IF sse[t].sent_count < Len(streams[t].messages)
       THEN sse' = [sse EXCEPT ![t] =
                       [@ EXCEPT !.emitted = Emit(@, streams[t].messages[sse[t].sent_count + 1]),
                                 !.sent_count = @ + 1]]
       ELSE sse' = [sse EXCEPT ![t] =
                       [@ EXCEPT !.emitted = Append(@, CompleteEvent(streams[t].final_result)),
                                 !.pc = "cleanup"]]
    /\ UNCHANGED <<streams, registered, agent_stream, task>>
    /\ UNCHANGED <<chunk_vars, store_vars, cache_vars, search_vars, rag_vars>>

\* del progress_streams[task_id]
Cleanup(t) ==
    /\ sse[t].pc = "cleanup"
    /\ registered' = registered \ {t}
    /\ sse' = [sse EXCEPT ![t] = [@ EXCEPT !.pc = "closed"]]
    /\ UNCHANGED <<streams, agent_stream, task>>
    /\ UNCHANGED <<chunk_vars, store_vars, cache_vars, search_vars, rag_vars>>

\* the steps of the analysis of task t, and of its consumer
AnalysisStep(t) ==
    Enter(t) \/ Progress(t) \/ AnalysisReturn(t) \/ SetFinalResult(t) \/ SetCompleted(t)
ConsumerStep(t) ==
    Connect(t) \/ TestCompleted(t) \/ Send(t) \/ Flush(t) \/ Cleanup(t)

-----------------------------------------------------------------------------
(* Specifications *)

ChunkIdle ==
    /\ c_content = <<>>
    /\ c_chunk_size = DefaultChunkSize
    /\ c_chunks = <<>>
    /\ c_pc = "idle"

\* no client is in a call
ClientsIdle ==
    /\ pc = [p \in Procs |-> "idle"]
    /\ call = [p \in Procs |-> NoCall]
    /\ pending = [p \in Procs |-> EmptyBag]
    /\ counts = [p \in Procs |-> NoCounts]
    /\ deleted = [p \in Procs |-> FALSE]
    /\ result = [p \in Procs |-> NoResult]
    /\ observed = NoStats
    /\ prev = NoPrev

StoreInit ==
    /\ rows = EmptyBag
    /\ ClientsIdle

\* concurrent clients of one table
Init == ChunkIdle /\ StoreInit /\ CacheIdle /\ SearchIdle /\ RagIdle /\ StreamIdle

Next ==
    \/ \E p \in Procs, r \in Repos, i \in Inputs : IndexRepository(p, r, i)
    \/ \E p \in Procs : DeleteCommit(p)
    \/ \E p \in Procs : EmbedFiles(p)
    \/ \E p \in Procs : Commit(p)
    \/ \E p \in Procs : Return(p)
    \/ \E r \in Repos : GetRepositoryStats(r)
    \/ InitializeTables

Spec == Init /\ [][Next]_vars

\* one client, one call at a time
SeqInit == ChunkIdle /\ StoreInit /\ CacheIdle /\ SearchIdle /\ RagIdle /\ StreamIdle

SeqNext ==
    \/ \E r \in Repos, i \in Inputs : IndexRepository("p1", r, i)
    \/ \E r \in Repos, i \in Inputs, f \in BOOLEAN, a \in BOOLEAN :
          IndexerRun("p1", r, i, f, a)
    \/ DeleteCommit("p1")
    \/ EmbedFiles("p1")
    \/ Commit("p1")
    \/ ReturnNoted("p1")
    \/ \E r \in Repos : GetRepositoryStats(r)

SpecSeq == SeqInit /\ [][SeqNext]_vars

\* the chunker alone
ChunkSpecInit == ChunkInit /\ StoreInit /\ CacheIdle /\ SearchIdle /\ RagIdle /\ StreamIdle

ChunkNext == ChunkCodeFile /\ UNCHANGED <<store_vars, cache_vars, search_vars, rag_vars, stream_vars>>

SpecChunk == ChunkSpecInit /\ [][ChunkNext]_vars

\* embed_text called one call after the other on one store
CacheInit == ChunkIdle /\ StoreInit /\ CacheIdle /\ SearchIdle /\ RagIdle /\ StreamIdle

CacheNext == \E text \in Candidates, encode_ok \in BOOLEAN : EmbedText(text, encode_ok)

SpecCache == CacheInit /\ [][CacheNext]_vars

\* searches of a corpus that is not being indexed
SearchInit ==
    /\ ChunkIdle
    /\ rows \in SearchTables
    /\ ClientsIdle
    /\ CacheIdle
    /\ SearchIdle
    /\ RagIdle
    /\ StreamIdle

SearchNext ==
    \/ \E query \in Queries, repo_name \in Repos, search_type \in SearchTypes,
          limit \in Limits, available \in BOOLEAN, fail \in Fails :
           /\ CodeSearch(query, repo_name, search_type, limit, available, fail)
           /\ UNCHANGED <<rag_vars, stream_vars>>
    \/ SearchReturn

SpecSearch == SearchInit /\ [][SearchNext]_vars

\* questions asked of a corpus that is not being indexed
RagInit ==
    /\ ChunkIdle
    /\ rows \in RagTables
    /\ ClientsIdle
    /\ CacheIdle
    /\ SearchIdle
    /\ RagIdle
    /\ StreamIdle

RagNext ==
    \/ \E question \in Questions, repo_name \in Repos, llm \in Llms,
          available \in BOOLEAN, fail \in Fails :
           RagQuery(question, repo_name, llm, available, fail)
    \/ RagReturn

SpecRag == RagInit /\ [][RagNext]_vars

\* analyze requests on the one shared agent, each stream with its consumer
StreamInit == ChunkIdle /\ StoreInit /\ CacheIdle /\ SearchIdle /\ RagIdle /\ StreamIdle

StreamNext ==
    \/ \E t \in Tasks, kind \in {"stream", "sync"} : AnalyzeRequest(t, kind)
    \/ \E t \in Tasks : Enter(t)
    \/ \E t \in Tasks : Progress(t)
    \/ \E t \in Tasks : AnalysisReturn(t)
    \/ \E t \in Tasks : SetFinalResult(t)
    \/ \E t \in Tasks : SetCompleted(t)
    \/ \E t \in Tasks : Connect(t)
    \/ \E t \in Tasks : TestCompleted(t)
    \/ \E t \in Tasks : Send(t)
    \/ \E t \in Tasks : Flush(t)
    \/ \E t \in Tasks : Cleanup(t)

SpecStream == StreamInit /\ [][StreamNext]_vars

\* the same, every started thread and every connected consumer being
\* scheduled again and again, and the client connecting to the stream it
\* was given
SpecStreamFair ==
    /\ SpecStream
    /\ \A t \in Tasks : WF_vars(AnalysisStep(t)) /\ WF_vars(ConsumerStep(t))


\* the contents of the chunks, in order
Contents(chunks) == [i \in 1..Len(chunks) |-> chunks[i].content]

\* the texts of a list one after the other, nothing between them
RECURSIVE Concat(_)
Concat(texts) == IF texts = <<>> THEN <<>> ELSE Head(texts) \o Concat(Tail(texts))

\* the number of newline characters of a text
NewlineCount(s) == Cardinality({i \in 1..Len(s) : s[i] = NL})

\* C8, as claimed: concatenating the content of all chunks, in order,
\* reconstructs the original text exactly.
C8_ConcatRoundTrip ==
    c_pc = "done" => Concat(Contents(c_chunks)) = c_content

\* C8, amended: the chunk contents joined with one newline between
\* consecutive chunks reconstruct the original text exactly; the plain
\* concatenation does so exactly when there is a single chunk.
C8_JoinRoundTrip ==
    c_pc = "done" =>
        /\ Join(Contents(c_chunks)) = c_content
        /\ (Concat(Contents(c_chunks)) = c_content) <=> (Len(c_chunks) = 1)

\* C8: a text cut into several chunks
C8_Witness ==
    /\ c_pc = "done"
    /\ Len(c_chunks) >= 2
    /\ Join(Contents(c_chunks)) = c_content
    /\ Concat(Contents(c_chunks)) # c_content

NewlineTerminated(s) == s # <<>> /\ s[Len(s)] = NL

\* C10, as claimed: content made of n newline-terminated lines whose total
\* size is below chunk_size yields exactly one chunk, with start_line = 0
\* and end_line = n - 1.
C10_TrailingNewline ==
    (c_pc = "done" /\ NewlineTerminated(c_content)
                  /\ TextLen(c_content) < c_chunk_size) =>
        /\ Len(c_chunks) = 1
        /\ c_chunks[1].start_line = 0
        /\ c_chunks[1].end_line = NewlineCount(c_content) - 1

\* C10, the example: "def f():\n    pass\n" with chunk_size 1000 gives one
\* chunk with end_line 2, the index of the empty piece after the last newline
C10_ExampleEndLine ==
    (c_pc = "done" /\ c_content = ExampleText /\ c_chunk_size = DefaultChunkSize) =>
        /\ Len(c_chunks) = 1
        /\ c_chunks[1].start_line = 0
        /\ c_chunks[1].end_line = 2

\* C11, as claimed: chunking empty content yields zero chunks, for every
\* chunk_size.
C11_EmptyYieldsNone ==
    (c_pc = "done" /\ c_content = <<>>) => c_chunks = <<>>

\* C11, what the code returns: "".split('\n') is [''], a list of one empty
\* line, so the result is one chunk with empty content, lines 0 to 0
C11_EmptyYieldsOne ==
    (c_pc = "done" /\ c_content = <<>>) =>
        /\ Len(c_chunks) = 1
        /\ c_chunks[1].content = <<>>
        /\ c_chunks[1].start_line = 0
        /\ c_chunks[1].end_line = 0

\* the lines start_line .. end_line of the chunk, lines counted from 0
LinesOf(lines, chunk) == SubSeq(lines, chunk.start_line + 1, chunk.end_line + 1)

\* the chunk that holds line i (lines counted from 0)
HoldsLine(chunk, i) == chunk.start_line <= i /\ i <= chunk.end_line

\* the lines of the input longer than chunk_size
LongLines(lines, chunk_size) == {i \in 0..(Len(lines) - 1) : TextLen(lines[i + 1]) > chunk_size}

\* C12, as claimed: no line is split across chunks, and every line whose
\* length exceeds chunk_size is alone in the chunk that contains it.
C12_LongLineAlone ==
    c_pc = "done" =>
        LET lines == Split(c_content) IN
        /\ \A k \in 1..Len(c_chunks) : c_chunks[k].content = Join(LinesOf(lines, c_chunks[k]))
        /\ \A i \in LongLines(lines, c_chunk_size) :
              \A k \in 1..Len(c_chunks) :
                  HoldsLine(c_chunks[k], i) =>
                      c_chunks[k].start_line = i /\ c_chunks[k].end_line = i

\* C12, amended: no line is split across chunks (every chunk is whole lines,
\* every line is in exactly one chunk), and every line whose length exceeds
\* chunk_size ends the chunk that contains it; it is alone in that chunk
\* exactly when it is the first line or the line before it ended a chunk.
C12_LongLineEndsChunk ==
    c_pc = "done" =>
        LET lines == Split(c_content) IN
        /\ \A k \in 1..Len(c_chunks) : c_chunks[k].content = Join(LinesOf(lines, c_chunks[k]))
        /\ \A i \in 0..(Len(lines) - 1) :
              Cardinality({k \in 1..Len(c_chunks) : HoldsLine(c_chunks[k], i)}) = 1
        /\ \A i \in LongLines(lines, c_chunk_size) :
              \A k \in 1..Len(c_chunks) :
                  HoldsLine(c_chunks[k], i) =>
                      /\ c_chunks[k].end_line = i
                      /\ (c_chunks[k].start_line = i) <=>
                            (i = 0 \/ \E j \in 1..Len(c_chunks) : c_chunks[j].end_line = i - 1)

\* C12: a line longer than chunk_size that shares its chunk with the
\* shorter line before it
C12_Witness ==
    /\ c_pc = "done"
    /\ \E i \in LongLines(Split(c_content), c_chunk_size) :
          \E k \in 1..Len(c_chunks) :
              /\ HoldsLine(c_chunks[k], i)
              /\ c_chunks[k].start_line < i
              /\ c_chunks[k].end_line = i

-----------------------------------------------------------------------------
(* Properties of the store and the index operation *)

\* the index loop over the files of p's call when no encode() raises
AllEncoded(p) ==
    FileLoop(call[p].repo_name, FilesOf(p),
             [i \in 1..Len(FilesOf(p)) |-> TRUE], Len(FilesOf(p)))

\* p's call was index_repository itself and it returned
DirectReturned(p) ==
    pc[p] = "done" /\ ~call[p].via_tool /\ result[p].kind = "return"

\* C1, as claimed (SpecSeq): after index_repository for R returns, the
\* total_chunks of get_repository_stats(R) is the number of chunks the chunker
\* produces over the non-skipped files and is the returned total_chunks, and
\* the stored rows of R are exactly the chunks of this call's files.
C1_ReplaceByRepository ==
    \A p \in Procs :
        DirectReturned(p) =>
            /\ StatsOf(rows, call[p].repo_name).total_chunks = AllEncoded(p).total_chunks
            /\ StatsOf(rows, call[p].repo_name).total_chunks = result[p].total_chunks
            /\ RowsOf(rows, call[p].repo_name) = AllEncoded(p).session

\* what does hold of a returned index_repository (SpecSeq): the stored rows
\* of R are the rows this call added, and their number is the one returned
StoredIsAdded ==
    \A p \in Procs :
        DirectReturned(p) =>
            /\ RowsOf(rows, call[p].repo_name) = pending[p]
            /\ StatsOf(rows, call[p].repo_name).total_chunks = result[p].total_chunks

\* the rows of repository r changed in this step
Changed(r) == RowsOf(rows', r) # RowsOf(rows, r)

\* this step is the committed delete or the committed insert of a reindex of r
ReindexStep(r) ==
    \E p \in Procs :
        /\ call[p].repo_name = r
        /\ pc[p] \in {"delete", "commit"}
        /\ pc'[p] # pc[p]

\* C2, as claimed (Spec): the stored chunks of a repository are removed or
\* changed only by a reindex of that repository; every other operation,
\* constructing a new TiDBVectorStore included, leaves them unchanged.
C2_OnlyReindexChanges ==
    [][\A r \in Repos : Changed(r) => ReindexStep(r)]_vars

\* the rows with the identity of `row`
SameIdentity(tbl, row) ==
    [x \in {y \in BagToSet(tbl) : /\ y.repo_name = row.repo_name
                                  /\ y.file_path = row.file_path
                                  /\ y.chunk_id = row.chunk_id} |-> tbl[x]]

\* C3, as claimed (Spec): at most one stored row has a given
\* (repo_name, file_path, chunk_id).
C3_UniqueIdentity ==
    \A row \in BagToSet(rows) : BagCardinality(SameIdentity(rows, row)) = 1

\* some chunk of `file` is stored for repository r
HasChunks(tbl, r, file) ==
    \E row \in BagToSet(tbl) :
        /\ row.repo_name = r
        /\ row.file_path = file.path
        /\ row.chunk_metadata.file_size = TextLen(file.content)

\* C4, as claimed (SpecSeq): an index operation that went through
\* index_repository never reports success = true while some non-skipped
\* input file has no chunk stored.
C4_HardFailure ==
    \A p \in Procs :
        (pc[p] = "done" /\ result[p].success
                       /\ result[p].message = "Successfully indexed") =>
            \A i \in 1..Len(FilesOf(p)) :
                ~Skipped(FilesOf(p)[i]) =>
                    HasChunks(rows, call[p].repo_name, FilesOf(p)[i])

\* C5 (Spec): the delete of index_repository is committed on its own, before
\* the inserts: the step that commits it leaves no row of the repository
\* visible, and the step that adds the new rows to the session changes
\* nothing a reader can see.
C5_DeleteBeforeInserts ==
    [][\A p \in Procs :
          /\ (pc[p] = "delete" /\ pc'[p] = "embed") =>
                 RowsOf(rows', call[p].repo_name) = EmptyBag
          /\ (pc[p] = "embed" /\ pc'[p] = "commit") => rows' = rows]_vars

\* C5: a reader served between the two commits of a reindex that replaces a
\* non-empty corpus by a non-empty one; it is shown an empty repository
C5_Witness ==
    \E p \in Procs :
        /\ pc[p] = "commit"
        /\ deleted[p]
        /\ pending[p] # EmptyBag
        /\ RowsOf(rows, call[p].repo_name) = EmptyBag
        /\ observed = [repo |-> call[p].repo_name, total_chunks |-> 0, total_files |-> 0]

\* C6 (Spec): the insert commit of index_repository adds its rows to whatever
\* the table holds then; it removes nothing, so the rows another call for
\* the same repository committed after this call's delete stay beside them.
C6_CommitKeepsOthers ==
    [][\A p \in Procs :
          (pc[p] = "commit" /\ pc'[p] = "done" /\ result'[p].success) =>
              /\ rows \sqsubseteq rows'
              /\ pending[p] \sqsubseteq RowsOf(rows', call[p].repo_name)
              /\ BagCardinality(rows') = BagCardinality(rows) + BagCardinality(pending[p])]_vars

\* C6: two calls for one repository with different files have both
\* returned, and the repository holds the rows of both
C6_Witness ==
    /\ pc["p1"] = "done" /\ pc["p2"] = "done"
    /\ result["p1"].success /\ result["p2"].success
    /\ call["p1"].repo_name = call["p2"].repo_name
    /\ call["p1"].input # call["p2"].input
    /\ pending["p1"] # EmptyBag /\ pending["p2"] # EmptyBag
    /\ RowsOf(rows, call["p1"].repo_name) = pending["p1"] (+) pending["p2"]
    /\ RowsOf(rows, call["p1"].repo_name) # pending["p1"]
    /\ RowsOf(rows, call["p1"].repo_name) # pending["p2"]

\* C7, as claimed (SpecSeq): two successful index calls in a row with the
\* same repository and files, made the same way, leave the same
\* total_chunks and total_files in get_repository_stats.
C7_Idempotent ==
    \A p \in Procs :
        (pc[p] = "done" /\ result[p].success /\ prev.result.success
                       /\ prev.call = call[p]) =>
            /\ StatsOf(rows, call[p].repo_name).total_chunks = prev.total_chunks
            /\ StatsOf(rows, call[p].repo_name).total_files = prev.total_files

-----------------------------------------------------------------------------
(* Properties of the embedding cache, checked under SpecCache *)

\* C13: the cache never holds more than _cache_max_size entries; a miss
\* with the cache at capacity evicts exactly one entry, the one inserted
\* earliest among those present, and appends the new one; a hit leaves the
\* order (the ages) of the entries as it was.
C13_BoundedFifo ==
    /\ [](Len(cache) <= CacheMaxSize)
    /\ [][/\ (e_last'.kind = "miss" /\ Len(cache) >= CacheMaxSize) =>
              /\ Len(cache') = Len(cache)
              /\ e_last'.evicted = <<cache[1].key>>
              /\ cache' = Append(Tail(cache), cache'[Len(cache')])
              /\ cache'[Len(cache')].key = Md5(e_last'.text)
          /\ (e_last'.kind = "miss" /\ Len(cache) < CacheMaxSize) =>
              /\ e_last'.evicted = <<>>
              /\ cache' = Append(cache, cache'[Len(cache')])
          /\ e_last'.kind = "hit" => cache' = cache]_vars

\* C13: the cache is full, the oldest entry is hit, and the next miss
\* evicts that very entry
C13_Witness ==
    /\ Len(cache) = CacheMaxSize
    /\ e_last.kind = "miss"
    /\ e_last.prev_kind = "hit"
    /\ e_last.evicted = <<Md5(e_last.prev_text)>>

\* C14: embed_text invokes the model exactly when the hash of its text is
\* not in the cache; a miss stores the vector it returns; a hit returns the
\* vector stored under the hash, the one the first call returned, and leaves
\* the cache as it was.
C14_CacheHit ==
    [][LET text_hash == Md5(e_last'.text) IN
       /\ e_last'.invoked <=> text_hash \notin Keys(cache)
       /\ e_last'.kind = "miss" =>
              /\ text_hash \in Keys(cache')
              /\ Lookup(cache', text_hash) = e_last'.returned
       /\ text_hash \in Keys(cache) =>
              /\ e_last'.kind = "hit"
              /\ cache' = cache
              /\ e_last'.returned = Lookup(cache, text_hash)
              /\ e_last'.returned = Encode(e_last'.text)]_vars

\* C14: a text embedded twice in a row, the second call a hit, with other
\* entries in the cache
C14_Witness ==
    /\ e_last.kind = "hit"
    /\ e_last.prev_kind = "miss"
    /\ e_last.prev_text = e_last.text
    /\ ~e_last.invoked
    /\ Len(cache) >= 2

-----------------------------------------------------------------------------
(* Properties of the searches, checked under SpecSearch *)

\* hybrid_search has returned its list to CodeSearchTool._run
HybridReturned == search.call.search_type = "hybrid" /\ search.result.success

\* the results of a list that carry the key of res
WithKey(results, res) == {i \in 1..Len(results) : Key(results[i]) = Key(res)}

\* C15: every entry of the hybrid output found only by the vector search has
\* combined_score = similarity_score and search_type "vector"; found only by
\* the full-text search, combined_score = relevance_score / 10 and search_type
\* "fulltext"; found by both, combined_score = (similarity_score +
\* relevance_score / 10) / 2 exactly and search_type "hybrid".
C15_MergeRule ==
    HybridReturned =>
        \A n \in 1..Len(search.store_results) :
            LET res == search.store_results[n]
                in_vector == WithKey(search.vector_results, res)
                in_fulltext == WithKey(search.fulltext_results, res)
            IN  /\ in_vector # {} \/ in_fulltext # {}
                /\ (in_vector # {} /\ in_fulltext = {}) =>
                      /\ res.search_type = "vector"
                      /\ \E i \in in_vector :
                            res.combined_score = search.vector_results[i].similarity_score
                /\ (in_vector = {} /\ in_fulltext # {}) =>
                      /\ res.search_type = "fulltext"
                      /\ \E j \in in_fulltext :
                            10 * res.combined_score = search.fulltext_results[j].relevance_score
                /\ (in_vector # {} /\ in_fulltext # {}) =>
                      /\ res.search_type = "hybrid"
                      /\ \E i \in in_vector, j \in in_fulltext :
                            20 * res.combined_score =
                                10 * search.vector_results[i].similarity_score
                                + search.fulltext_results[j].relevance_score

\* C15: an output with a chunk of similarity 0.8 and relevance 1.0, scored
\* 0.45 as "hybrid", next to a chunk found by the vector search alone
C15_Witness ==
    /\ HybridReturned
    /\ \E n, m \in 1..Len(search.store_results) :
          /\ search.store_results[n].search_type = "hybrid"
          /\ search.store_results[n].similarity_score = 800
          /\ \E j \in WithKey(search.fulltext_results, search.store_results[n]) :
                search.fulltext_results[j].relevance_score = ScoreOne
          /\ search.store_results[n].combined_score = 450
          /\ search.store_results[m].search_type = "vector"

\* the keys of the chunks found by either search
FoundKeys == {Key(search.vector_results[i]) : i \in 1..Len(search.vector_results)}
             \cup {Key(search.fulltext_results[j]) : j \in 1..Len(search.fulltext_results)}

\* the combined_score the merge rule gives the chunk of a key, times 20
RuleScore20(key) ==
    LET in_vector == {i \in 1..Len(search.vector_results) : Key(search.vector_results[i]) = key}
        in_fulltext == {j \in 1..Len(search.fulltext_results) : Key(search.fulltext_results[j]) = key}
        sim == search.vector_results[CHOOSE i \in in_vector : TRUE].similarity_score
        rel == search.fulltext_results[CHOOSE j \in in_fulltext : TRUE].relevance_score
    IN  IF in_fulltext = {} THEN 20 * sim
        ELSE IF in_vector = {} THEN 2 * rel
        ELSE 10 * sim + rel

\* C16: the hybrid output is sorted by combined_score, highest first, holds
\* no key twice, has at most `limit` entries, as many as there are chunks
\* found up to `limit`, and no chunk found and left out scores strictly
\* higher than a returned one.
C16_Ranking ==
    HybridReturned =>
        LET out == search.store_results
            out_keys == {Key(out[n]) : n \in 1..Len(out)}
        IN  /\ \A n \in 1..(Len(out) - 1) : out[n].combined_score >= out[n + 1].combined_score
            /\ \A n, m \in 1..Len(out) : Key(out[n]) = Key(out[m]) => n = m
            /\ Len(out) <= search.call.limit
            /\ out_keys \subseteq FoundKeys
            /\ Len(out) = IF Cardinality(FoundKeys) < search.call.limit
                          THEN Cardinality(FoundKeys) ELSE search.call.limit
            /\ \A key \in FoundKeys \ out_keys :
                  \A n \in 1..Len(out) : RuleScore20(key) <= 20 * out[n].combined_score

\* C16: more chunks found than asked for, the returned ones of different
\* scores, one left out
C16_Witness ==
    /\ HybridReturned
    /\ Len(search.store_results) = 2
    /\ search.store_results[1].combined_score > search.store_results[2].combined_score
    /\ Cardinality(FoundKeys) > 2

\* C17, as claimed: a chunk found by both searches gets a combined_score
\* that is at least its similarity_score.
C17_BothBoosted ==
    HybridReturned =>
        \A n \in 1..Len(search.store_results) :
            search.store_results[n].search_type = "hybrid" =>
                search.store_results[n].combined_score
                    >= search.store_results[n].similarity_score

\* C17, what the code gives: the score of a chunk found by both searches is
\* at least its similarity exactly when the similarity is at most 0.1
C17_BoostedBelowTenth ==
    HybridReturned =>
        \A n \in 1..Len(search.store_results) :
            search.store_results[n].search_type = "hybrid" =>
                ((search.store_results[n].combined_score
                     >= search.store_results[n].similarity_score)
                 <=> (10 * search.store_results[n].similarity_score <= ScoreOne))

\* vector_search was called and its list is in search.vector_results
VectorCalled ==
    /\ search.call.search_type \in {"vector", "hybrid"}
    /\ search.result # Failed("TiDB Vector Store not available")

\* the rows of the searched repository that a vector result can come from
SourceRows(res) ==
    {row \in BagToSet(RowsOf(rows, search.call.repo_name)) :
        /\ row.file_path = res.file_path
        /\ row.chunk_id = res.chunk_id
        /\ row.content = res.full_content
        /\ res.similarity_score
              = ScoreOne - CosineDistance(Vec(row.embedding), Vec(Encode(search.call.query)))}

\* C18: vector_search returns at most `limit` chunks, each a chunk of the
\* queried repository with similarity_score = 1 - cosine distance to the
\* query vector, in order of similarity_score, highest first, and no stored
\* chunk of the repository left out is strictly closer than a returned one.
C18_VectorOrder ==
    VectorCalled =>
        LET out == search.vector_results
            stored == RowsOf(rows, search.call.repo_name)
        IN  /\ Len(out) <= search.call.limit
            /\ \A n \in 1..Len(out) : SourceRows(out[n]) # {}
            /\ \A n \in 1..(Len(out) - 1) : out[n].similarity_score >= out[n + 1].similarity_score
            /\ \A row \in BagToSet(stored) :
                  Cardinality({n \in 1..Len(out) : row \in SourceRows(out[n])}) <= stored[row]
            /\ \A row \in BagToSet(stored), n \in 1..Len(out) :
                  (ScoreOne - CosineDistance(Vec(row.embedding), Vec(Encode(search.call.query)))
                      > out[n].similarity_score)
                  => \E m \in 1..Len(out) : row \in SourceRows(out[m])

\* C18: fewer chunks returned than the repository holds, the returned ones
\* of different similarity
C18_Witness ==
    /\ VectorCalled
    /\ Len(search.vector_results) = 2
    /\ search.vector_results[1].similarity_score > search.vector_results[2].similarity_score
    /\ BagCardinality(RowsOf(rows, search.call.repo_name)) > 2

\* fulltext_search was called and its list is in search.fulltext_results
FulltextCalled ==
    /\ search.call.search_type \in {"fulltext", "hybrid"}
    /\ search.result # Failed("TiDB Vector Store not available")

\* C19, as claimed: every chunk returned by fulltext_search belongs to the
\* repository and its content contains the query as a literal substring,
\* the characters % and _ matched literally; every match has
\* relevance_score = 1.0 and at most `limit` chunks are returned.
C19_LiteralMatch ==
    FulltextCalled =>
        /\ Len(search.fulltext_results) <= search.call.limit
        /\ \A n \in 1..Len(search.fulltext_results) :
              LET res == search.fulltext_results[n] IN
              /\ res.relevance_score = ScoreOne
              /\ ContainsLiteral(res.content, search.call.query)
              /\ \E row \in BagToSet(RowsOf(rows, search.call.repo_name)) :
                    /\ row.file_path = res.file_path
                    /\ row.chunk_id = res.chunk_id
                    /\ row.content = res.content

\* C19, the example: of the two files of r2 only t.py contains "TODO";
\* the search for "TODO" returns the one chunk of t.py when the query does
\* not fail
C19_TodoExample ==
    (/\ search.call.search_type = "fulltext"
     /\ search.result.success
     /\ search.fail = "none"
     /\ search.call.query = QueryTodo
     /\ search.call.repo_name = "r2"
     /\ rows = IndexedRows("r1", <<FileT, FileL, FileG>>) (+) IndexedRows("r2", <<FileT, FileL>>))
    => /\ Len(search.fulltext_results) = 1
       /\ search.fulltext_results[1].file_path = "t.py"
       /\ search.fulltext_results[1].content = TextTodo

\* C20, as claimed: for every result CodeSearchTool._run returns, in vector,
\* fulltext or hybrid mode, full_content is the entire stored content of
\* that chunk, also for chunks longer than 1000 characters.
C20_FullContent ==
    search.result.success =>
        \A n \in 1..Len(search.result.results) :
            LET res == search.result.results[n] IN
            \E row \in BagToSet(RowsOf(rows, search.call.repo_name)) :
                /\ row.file_path = res.file_path
                /\ row.chunk_id = res.chunk_id
                /\ res.full_content = row.content

\* C20, what the code gives: full_content is the stored content cut to its
\* first 1000 characters and "..." when the vector search found the chunk,
\* the stored content when only the full-text search did
C20_FullContentCut ==
    search.result.success =>
        \A n \in 1..Len(search.result.results) :
            LET res == search.result.results[n] IN
            \E row \in BagToSet(RowsOf(rows, search.call.repo_name)) :
                /\ row.file_path = res.file_path
                /\ row.chunk_id = res.chunk_id
                /\ res.full_content =
                      IF res.search_type \in {"vector", "hybrid"}
                      THEN Truncate(row.content, 1000) ELSE row.content

\* /api/search: jsonify(result), 200 if result.get("success") else 500
HttpStatus(res) == IF res.success THEN 200 ELSE 500

\* the search was asked in one of the three modes of /api/search
ValidSearch == search.call.search_type \in {"vector", "fulltext", "hybrid"}

\* the store could not be constructed, or the model or a query failed
Unavailable ==
    \/ search.result = Failed("TiDB Vector Store not available")
    \/ search.fail # "none"

\* C21, as claimed: whenever the embedding model or the store is
\* unavailable, at construction or at query time, a search in any mode
\* completes successfully (status 200), and with an empty list when every
\* search of the mode failed.
C21_SearchDegrades ==
    (ValidSearch /\ Unavailable) =>
        /\ search.result.success
        /\ HttpStatus(search.result) = 200
        /\ (search.vector_results = <<>> /\ search.fulltext_results = <<>>) =>
              search.result.results = <<>>

\* C21, what the code gives: a failure at query time in vector or fulltext
\* mode gives success with an empty list; a store that could not be
\* constructed gives success False, status 500
C21_DegradesAtQueryTime ==
    /\ (search.call.search_type \in {"vector", "fulltext"} /\ search.fail # "none") =>
          /\ search.result.success
          /\ HttpStatus(search.result) = 200
          /\ search.result.results = <<>>
    /\ search.result = Failed("TiDB Vector Store not available") =>
          HttpStatus(search.result) = 500

\* hybrid_search was called
HybridCalled ==
    /\ search.call.search_type = "hybrid"
    /\ search.result # Failed("TiDB Vector Store not available")

VectorFailed == search.fail \in {"embed", "vector_db", "db"}
FulltextFailed == search.fail \in {"fulltext_db", "db"}

\* the hybrid output is the list `results` of one search, each entry scored
\* and tagged as found by that search alone
SingleSource(results, search_type) ==
    /\ ~search.raised
    /\ Len(search.store_results) = Len(results)
    /\ \A i \in 1..Len(results) :
          LET out == search.store_results[i] IN
          /\ Key(out) = Key(results[i])
          /\ out.content = results[i].content
          /\ out.search_type = search_type
          /\ IF search_type = "vector"
             THEN out.combined_score = results[i].similarity_score
             ELSE 10 * out.combined_score = results[i].relevance_score

\* vector_search and fulltext_search answer [] when they fail, and
\* hybrid_search then returns what the other search found
Degrades ==
    /\ (VectorCalled /\ VectorFailed) => search.vector_results = <<>>
    /\ (FulltextCalled /\ FulltextFailed) => search.fulltext_results = <<>>
    /\ HybridCalled =>
          /\ (VectorFailed /\ ~FulltextFailed) => SingleSource(search.fulltext_results, "fulltext")
          /\ (FulltextFailed /\ ~VectorFailed) => SingleSource(search.vector_results, "vector")
          /\ (VectorFailed /\ FulltextFailed) => (~search.raised /\ search.store_results = <<>>)

UniqueRows ==
    \A x \in BagToSet(rows) :
        /\ rows[x] = 1
        /\ \A y \in BagToSet(rows) :
              (x.repo_name = y.repo_name /\ x.file_path = y.file_path /\ x.chunk_id = y.chunk_id)
              => x = y

\* C22, what the code gives: the degradation holds on a table without
\* duplicate rows
C22_DegradesUniqueRows == UniqueRows => Degrades

\* the hybrid search of the last RAG call returned chunks
Retrieved == rag # NoRag /\ search.result.success /\ search.result.results # <<>>

\* the response carries a mark of degradation
Degraded(res) == "llm_error" \in DOMAIN res \/ "fallback_mode" \in DOMAIN res

\* the sources are made of the first ContextSize retrieved chunks, in order
SourcesOfContext ==
    LET results == search.result.results
        k == IF Len(results) < ContextSize THEN Len(results) ELSE ContextSize
    IN  /\ Len(rag.result.sources) = k
        /\ \A i \in 1..k :
              /\ rag.result.sources[i].file_path = results[i].file_path
              /\ rag.result.sources[i].lines =
                    ToString(results[i].metadata.start_line) \o "-" \o
                    ToString(results[i].metadata.end_line)
              /\ rag.result.sources[i].language = results[i].metadata.language
              /\ rag.result.sources[i].similarity_score = results[i].combined_score

\* the answer names the file paths of the first TopFiles retrieved chunks
NamesTopFiles ==
    LET results == search.result.results
        k == IF Len(results) < TopFiles THEN Len(results) ELSE TopFiles
    IN  /\ "files" \in DOMAIN rag.result.answer
        /\ rag.result.answer.files = [i \in 1..k |-> results[i].file_path]

\* C23, as claimed: when retrieval returned at least one chunk and the LLM
\* invocation fails (invoke raises, or HybridLLMManager.invoke returns None
\* because every model failed), the RAG tool returns a successful degraded
\* response whose answer names the file paths of the top 3 results and whose
\* sources are the context chunks; the failure is never returned as if it
\* were a synthesized answer.
C23_LlmFailureDegrades ==
    (Retrieved /\ rag.call.llm \in {"raises", "returns_none"}) =>
        /\ rag.result.success
        /\ Degraded(rag.result)
        /\ rag.result.answer.kind # "from_model"
        /\ NamesTopFiles
        /\ SourcesOfContext

\* C23, what the code gives when invoke raises: the degraded response
C23_RaiseDegrades ==
    (Retrieved /\ rag.call.llm = "raises") =>
        /\ rag.result.success
        /\ Degraded(rag.result)
        /\ rag.result.answer.kind # "from_model"
        /\ NamesTopFiles
        /\ SourcesOfContext

\* C24: when the hybrid search returns zero results, the RAG tool returns a
\* successful response that is not marked degraded, with the fixed "nothing
\* found" answer and no sources, and the LLM is not invoked.
C24_EmptyResult ==
    (rag # NoRag /\ search.result.success /\ search.result.results = <<>>) =>
        /\ rag.result.success
        /\ ~Degraded(rag.result)
        /\ rag.result.answer = NothingFound
        /\ rag.result.sources = <<>>
        /\ ~rag.invoked

\* an LLM is configured, nothing fails, and the repository has no chunk
C24_Witness ==
    /\ rag # NoRag
    /\ rag.call.llm = "answers"
    /\ search.fail = "none"
    /\ search.result.success
    /\ search.result.results = <<>>
    /\ rag.result.answer = NothingFound

\* C25: when the hybrid search (limit 8) returns n >= 1 results, the context
\* and the sources are exactly the first min(5, n) results in ranked order,
\* each source carrying file path, line range, language and score; when the
\* LLM succeeds the answer is the model's output.
C25_Sources ==
    Retrieved =>
        /\ search.call.limit = RagLimit
        /\ SourcesOfContext
        /\ Len(rag.context) = Len(rag.result.sources)
        /\ \A i \in 1..Len(rag.context) :
              /\ rag.context[i].file_path = search.result.results[i].file_path
              /\ rag.context[i].content = search.result.results[i].full_content
        /\ \A i \in 1..(Len(rag.result.sources) - 1) :
              rag.result.sources[i].similarity_score >= rag.result.sources[i + 1].similarity_score
        /\ rag.call.llm = "answers" =>
              /\ rag.invoked
              /\ rag.result.answer = FromModel(Response("answers").content)

\* six chunks are retrieved, five are sources, and the model answers
C25_Witness ==
    /\ Retrieved
    /\ Len(search.result.results) > ContextSize
    /\ Len(rag.result.sources) = ContextSize
    /\ rag.call.llm = "answers"
    /\ rag.result.answer.kind = "from_model"

\* C26: with no LLM configured and at least one chunk retrieved, the RAG
\* tool returns a degraded answer, flagged fallback_mode, that lists the
\* file paths of the top 3 results without synthesis, together with the
\* sources, and invokes no model.
C26_NoLlm ==
    (Retrieved /\ rag.call.llm = "none") =>
        /\ rag.result.success
        /\ "fallback_mode" \in DOMAIN rag.result
        /\ rag.result.fallback_mode
        /\ rag.result.answer.kind = "need_llm"
        /\ rag.result.answer.count = Len(search.result.results)
        /\ NamesTopFiles
        /\ SourcesOfContext
        /\ ~rag.invoked

\* more chunks are retrieved than the answer names, and no LLM is configured
C26_Witness ==
    /\ Retrieved
    /\ rag.call.llm = "none"
    /\ Len(search.result.results) > TopFiles
    /\ Len(rag.result.answer.files) = TopFiles
    /\ rag.result.fallback_mode

\* this step is a call of CodeIndexerTool._run by p, on a tool that has a store
ToolCall(p) ==
    /\ pc[p] = "idle"
    /\ pc'[p] # "idle"
    /\ call'[p].via_tool
    /\ result'[p].message # "TiDB Vector Store not available"

\* the call returns at once, reporting the stored totals of the repository
SkipsIndexing(p) ==
    /\ pc'[p] = "done"
    /\ rows' = rows
    /\ result'[p].success
    /\ ~result'[p].reindexed
    /\ result'[p].indexed_files = StatsOf(rows, call'[p].repo_name).total_files
    /\ result'[p].total_chunks = StatsOf(rows, call'[p].repo_name).total_chunks

\* this step ends a call of the tool that went into index_repository
ToolIndexed(p) ==
    /\ call[p].via_tool
    /\ pc[p] \in {"delete", "embed", "commit"}
    /\ pc'[p] = "done"

\* C27, as claimed (SpecSeq): CodeIndexerTool._run with force_reindex False
\* on a repository that has a stored chunk does no delete or insert and
\* reports the existing total_files and total_chunks with reindexed False;
\* with force_reindex True, or when the repository has no stored chunk, it
\* always replaces the corpus with the supplied files.
C27_ConditionalReindex ==
    [][\A p \in Procs :
          /\ ToolCall(p) =>
                IF /\ ~call'[p].force_reindex
                   /\ StatsOf(rows, call'[p].repo_name).total_chunks > 0
                THEN SkipsIndexing(p)
                ELSE pc'[p] = "delete"
          /\ ToolIndexed(p) =>
                RowsOf(rows', call[p].repo_name) = AllEncoded(p).session]_vars

\* C27, what the code gives (SpecSeq): the call on an indexed repository
\* without force_reindex either returns the stored totals or, its stats
\* query having failed, goes on to index; with force_reindex, or on a
\* repository without chunks, it goes on to index; and an indexing that
\* reports success has stored the rows it added, reindexed being the
\* force_reindex it was given
C27_SkipOrIndex ==
    [][\A p \in Procs :
          /\ ToolCall(p) =>
                /\ rows' = rows
                /\ IF /\ ~call'[p].force_reindex
                      /\ StatsOf(rows, call'[p].repo_name).total_chunks > 0
                   THEN SkipsIndexing(p) \/ pc'[p] = "delete"
                   ELSE pc'[p] = "delete"
          /\ (ToolIndexed(p) /\ result'[p].success) =>
                /\ RowsOf(rows', call[p].repo_name) = pending[p]
                /\ result'[p].reindexed = call[p].force_reindex]_vars

\* this step made rows visible that were not
AddsRows == ~(rows' \sqsubseteq rows)

\* C28 (Spec): the inserts of one index_repository call become visible all
\* at once: every step that makes new rows visible is the commit of one
\* call and adds every row of that call's session, so a reader between two
\* steps sees none or all of them; when the final commit fails none of the
\* new rows is stored, and the stored rows of the repository were already
\* removed by the call's own committed delete.
C28_AllAtOnce ==
    [][/\ AddsRows =>
             \E p \in Procs :
                 /\ pc[p] = "commit"
                 /\ pc'[p] = "done"
                 /\ result'[p].success
                 /\ rows' = rows (+) pending[p]
       /\ \A p \in Procs :
             /\ (pc[p] = "commit" /\ pc'[p] = "done" /\ ~result'[p].success) =>
                    rows' = rows
             /\ (pc[p] = "delete" /\ pc'[p] = "embed") =>
                    RowsOf(rows', call[p].repo_name) = EmptyBag
             /\ (pc[p] = "embed" /\ pc'[p] = "commit") => rows' = rows]_vars

\* a reader asks for the stats of a repository whose index call has two
\* rows or more in its session, not yet committed, and sees none of them
C28_Witness ==
    \E p \in Procs :
        /\ pc[p] = "commit"
        /\ BagCardinality(pending[p]) >= 2
        /\ observed.repo = call[p].repo_name
        /\ observed.total_chunks = 0
        /\ RowsOf(rows, call[p].repo_name) = EmptyBag

-----------------------------------------------------------------------------
(* Properties of the progress streams, checked under SpecStream *)

\* the progress messages the consumer of t has emitted, in order
RECURSIVE ProgressOf(_)
ProgressOf(events) ==
    IF events = <<>> THEN <<>>
    ELSE IF Head(events).type = "progress"
         THEN <<Head(events).message>> \o ProgressOf(Tail(events))
         ELSE ProgressOf(Tail(events))

\* the places of the 'complete' events among the emitted ones
Completes(t) == {i \in 1..Len(sse[t].emitted) : sse[t].emitted[i].type = "complete"}

\* the consumer of t has emitted every message of t's stream once, in the
\* order of the appends, so far; at most one 'complete', after all of them,
\* with the final result; and the entry is removed after it
Delivers(t) ==
    /\ Len(ProgressOf(sse[t].emitted)) <= Len(streams[t].messages)
    /\ ProgressOf(sse[t].emitted) =
           SubSeq(streams[t].messages, 1, Len(ProgressOf(sse[t].emitted)))
    /\ Cardinality(Completes(t)) <= 1
    /\ Completes(t) # {} =>
          /\ Completes(t) = {Len(sse[t].emitted)}
          /\ ProgressOf(sse[t].emitted) = streams[t].messages
          /\ sse[t].emitted[Len(sse[t].emitted)].result # PyNone
          /\ sse[t].emitted[Len(sse[t].emitted)].result = Result(t)
    /\ sse[t].pc = "closed" => (Completes(t) # {} /\ t \notin registered)

\* C29, as claimed: for a streaming task with a single consumer, every
\* progress message appended to the task's stream is emitted exactly once,
\* in append order, then exactly one 'complete' event with the non-null
\* final result after all progress events, then the entry is removed from
\* progress_streams.
C29_StreamDelivery ==
    \A t \in Tasks : task[t].kind = "stream" => Delivers(t)

\* no analysis other than t's has been requested
Alone(t) == \A u \in Tasks \ {t} : task[u].pc = "idle"

\* C29, what the code gives: the delivery holds for a task whose analysis
\* is the only one on the agent
C29_DeliveryAlone ==
    \A t \in Tasks : (task[t].kind = "stream" /\ Alone(t)) => Delivers(t)

\* C29, the liveness part (SpecStreamFair): the 'complete' event of every
\* streaming task is eventually emitted
C29_EventuallyComplete ==
    \A t \in Tasks : (task[t].kind = "stream") ~> (Completes(t) # {})

\* the messages of task t that are in the stream of task u
FromIn(t, u) == SelectSeq(streams[u].messages, LAMBDA m : m.from = t)

\* C30, as claimed: when two analyze requests run concurrently on the
\* shared agent, every progress message of a task's own clone and read step
\* is appended to that task's stream and to no other, and none is lost.
C30_ProgressIsolation ==
    \A t \in Tasks :
        /\ task[t].kind = "stream" => FromIn(t, t) = task[t].messages
        /\ \A u \in Tasks \ {t} : FromIn(t, u) = <<>>

\* C30, what the code gives: a task's messages are all in its stream, and
\* only there, when no other analysis has been requested
C30_IsolationAlone ==
    \A t \in Tasks :
        Alone(t) =>
            /\ task[t].kind = "stream" => FromIn(t, t) = task[t].messages
            /\ \A u \in Tasks \ {t} : FromIn(t, u) = <<>>

=============================================================================
